---- MODULE Spec2Model ----
(***************************************************************************)
(* Model of the stokapp_v2 backend: the transaction (lot) ledger of        *)
(* app/api/routes.py and app/api/crudroutes.py, the overamt batch of       *)
(* app/scheduler/tasks/overamt_task.py, the lot and dividend endpoints,    *)
(* the optimizer tasks of app/mpt_modeling.py and the job scheduler of     *)
(* app/scheduler/config.py and app/main.py.                                *)
(*                                                                         *)
(* Conventions.  A nullable column holds a sequence: << >> is SQL NULL and *)
(* <<v>> is the value v.  The disposition column holds "null" for SQL NULL.*)
(* Units are whole numbers; money is in whole cents.                       *)
(***************************************************************************)
EXTENDS Integers, Sequences, FiniteSets, TLC

\* ------------------------------------------------------------------ bounds

\* Rows the transactions table may hold.
MaxTxns == 2

\* Largest units value of a payload; units_remaining payloads go one above it.
MaxUnits == 1

\* Runs of run_update, committed price updates and injected store errors in
\* one behaviour of the batch.
MaxRuns == 2

MaxChanges == 1

MaxFaults == 1

\* Optimizer tasks initiated.
MaxTasks == 2

\* pause_job / resume_job handlers in flight at once.
MaxHandlers == 2

\* Manual runs of one job under way at once.
MaxManual == 2

\* ------------------------------------------------------------- value domains

Null == << >>

Some(v) == <<v>>

IsNull(x) == x = << >>

Val(x) == x[1]

\* Symbols of the securities tracked; SymbolOrder is ORDER BY symbol.
Symbols == {"A", "B"}

SymbolOrder == <<"A", "B">>

\* xtype tags used by the handlers ('Buy' is the only one they test for).
Types == {"Buy", "Sell"}

\* disposition: NULL, the closed tag written by close_lots, any other tag.
Dispositions == {"null", "sold", "other"}

UnitsDom == 1..MaxUnits

\* TransactionUpdate.units_remaining: absent (None) or any float.
RemainingDom == {Null} \cup {Some(u) : u \in 0..(MaxUnits + 1)}

\* Ids a request may name: every row the table can hold and one beyond.
IdDom == 1..(MaxTxns + 1)

\* Where a store error may strike inside a handler.
CloseFaults == {"none", "update", "commit"}

WriteFaults == {"none", "execute"}

VARIABLES
    txns,     \* committed rows of the transactions table; the id is the index
    last,     \* the last request handled and its response
    prices,   \* committed prices table: symbol -> price in cents, Null: no row
    mpt,      \* committed MPT table: symbol -> target_alloc, overamt, flag
    pc,       \* run_update: "idle", "loop" (the symbol loop) or "commit"
    pv,       \* run_update: portfolio_value, in cents
    idx,      \* run_update: position of the loop in SymbolOrder
    pending,  \* run_update: the session's uncommitted MPT writes
    ret,      \* what the last finished run_update returned ("none" before)
    before,   \* overamt and flag of every symbol when the run began
    reads,    \* what concurrent readers of MPT saw during the run
    raised,   \* the exceptions raised during the run
    rerun,    \* the run began right after a successful run on unchanged inputs
    stable,   \* no transaction, price or target changed since the run began
    runs,     \* runs begun
    changes,  \* price updates committed
    faults    \* store errors injected into run_update

ledgerVars == <<txns, last>>

batchVars == <<pc, pv, idx, pending, ret, before, reads, raised, rerun, stable, runs, faults>>

rebalanceVars == <<prices, mpt, changes, batchVars>>

VARIABLES
    task_storage, \* mpt_modeling.task_storage: task id -> its entry, Null: no key
    tline,        \* where each background task stands in run_mpt_modeling_task
    running,      \* scheduler.running
    paused,       \* the jobs the scheduler holds paused (next_run_time None)
    job_states,   \* job_states.json: job id -> "true", "false", "absent"
    handlers,     \* the pause_job / resume_job handlers in flight
    execs,        \* executions of each job function under way, by origin
    settled       \* the last request for each job that answered success

taskVars == <<task_storage, tline>>

schedulerVars == <<running, paused, job_states, handlers, execs, settled>>

serviceVars == <<taskVars, schedulerVars>>

vars == <<ledgerVars, rebalanceVars, serviceVars>>

\* ------------------------------------------------------------ transactions

Row(symbol, type, units, ur, disp) ==
    [symbol |-> symbol, xtype |-> type, units |-> units,
     units_remaining |-> ur, disposition |-> disp]

\* effective remaining units: units_remaining when not null, units otherwise
EffectiveRemaining(r) ==
    IF IsNull(r.units_remaining) THEN r.units ELSE Val(r.units_remaining)

Exists(t, id) == id \in 1..Len(t)

\* last: the request (op, ids), the store error injected into it (fault), its
\* HTTP status (resp, 0 before any request), the row count it reported
\* (count), and the status of the request before it when that was a
\* completed close_lots with the same id list (again, 0 otherwise).
NoCall == [op |-> "none", ids |-> {}, resp |-> 0, count |-> 0, fault |-> "none", again |-> 0]

Call(op, ids, resp, count, fault) ==
    [op |-> op, ids |-> ids, resp |-> resp, count |-> count, fault |-> fault, again |-> 0]

\* create_transaction: units_remaining = units for a Buy, NULL otherwise;
\* disposition NULL; the row is inserted and committed, or rolled back.
CreatedRow(symbol, type, units) ==
    Row(symbol, type, units, IF type = "Buy" THEN Some(units) ELSE Null, "null")

Create(SymbolsIn, TypesIn, UnitsIn) ==
    /\ Len(txns) < MaxTxns
    /\ UNCHANGED <<rebalanceVars, serviceVars>>
    /\ \E symbol \in SymbolsIn, type \in TypesIn, units \in UnitsIn, fault \in WriteFaults :
          IF fault = "none"
          THEN /\ txns' = Append(txns, CreatedRow(symbol, type, units))
               /\ last' = Call("create", {Len(txns) + 1}, 200, 0, fault)
          ELSE /\ txns' = txns
               /\ last' = Call("create", {}, 500, 0, fault)

CreateTransaction == Create(Symbols, Types, UnitsDom)

\* update_transaction, the units_remaining clause of the UPDATE: the payload's
\* value when it is not None, else units for a Buy payload, else NULL when a
\* Buy row changes type, else the column is left out of the UPDATE.
UnitsRemainingUpdate(cur, type, units, ur) ==
    IF ~IsNull(ur) THEN ur
    ELSE IF type = "Buy" THEN Some(units)
    ELSE IF cur.xtype = "Buy" /\ type # "Buy" THEN Null
    ELSE cur.units_remaining

\* update_transaction, the UPDATE statement: symbol, xtype, units and
\* disposition are set from the payload (disposition to NULL when the payload
\* has none).
UpdatedRow(cur, symbol, type, units, ur, disp) ==
    Row(symbol, type, units, UnitsRemainingUpdate(cur, type, units, ur), disp)

\* update_transaction: 404 for an unknown id; else the UPDATE and the commit,
\* or the rollback and 500 on a store error.
Update(SymbolsIn, TypesIn, UnitsIn, RemainingIn) ==
    /\ UNCHANGED <<rebalanceVars, serviceVars>>
    /\ \E id \in IdDom, symbol \in SymbolsIn, type \in TypesIn, units \in UnitsIn,
          ur \in RemainingIn, disp \in Dispositions, fault \in WriteFaults :
          IF ~Exists(txns, id)
          THEN /\ txns' = txns
               /\ last' = Call("update", {id}, 404, 0, "none")
          ELSE IF fault # "none"
          THEN /\ txns' = txns
               /\ last' = Call("update", {id}, 500, 0, fault)
          ELSE /\ txns' = [txns EXCEPT ![id] = UpdatedRow(txns[id], symbol, type, units, ur, disp)]
               /\ last' = Call("update", {id}, 200, 0, fault)

UpdateTransaction == Update(Symbols, Types, UnitsDom, RemainingDom)

\* SQL's d != v: unknown, so not selected, when d is NULL.
SqlNe(d, v) == d # "null" /\ d # v

\* A WHERE clause that closes every listed row again, closed or not.
CloseSelects_NoClosedTest(t, ids, i) == i \in ids

\* A WHERE clause without the IS NULL test: NULL != 'sold' selects nothing.
CloseSelects_NoNullTest(t, ids, i) ==
    /\ i \in ids
    /\ SqlNe(t[i].disposition, "sold")

\* close_lots, the WHERE clause: id IN (...) AND
\* (disposition IS NULL OR disposition != 'sold').
CloseSelects(t, ids, i) ==
    /\ i \in ids
    /\ (t[i].disposition = "null" \/ SqlNe(t[i].disposition, "sold"))

\* close_lots, the UPDATE statement applied to table t.
SqlCloseUpdate(t, ids) ==
    [i \in 1..Len(t) |->
        IF CloseSelects(t, ids, i) THEN [t[i] EXCEPT !.disposition = "sold"] ELSE t[i]]

\* result.rowcount of that UPDATE.
RowCount(t, ids) == Cardinality({i \in 1..Len(t) : CloseSelects(t, ids, i)})

\* An except branch that leaves the session's writes in the store.
Rollback_KeepsWrites(committed, working) == working

\* db.rollback(): the session's uncommitted writes are dropped.
Rollback(committed, working) == committed

\* close_lots as a whole on committed table t: 400 for an empty list; else
\* BEGIN, the UPDATE, COMMIT, then 404 when no row changed and 200 otherwise;
\* a store error at the UPDATE or at COMMIT goes to the except branch,
\* which rolls back and answers 500.
CloseLotsOutcome(t, ids, fault) ==
    IF ids = {}
    THEN [txns |-> t, resp |-> 400, count |-> 0, fault |-> "none"]
    ELSE LET working == IF fault = "update" THEN t ELSE SqlCloseUpdate(t, ids)
             n == RowCount(t, ids)
         IN  IF fault # "none"
             THEN [txns |-> Rollback(t, working), resp |-> 500, count |-> 0, fault |-> fault]
             ELSE [txns |-> working, resp |-> IF n = 0 THEN 404 ELSE 200,
                   count |-> n, fault |-> fault]

CloseLots ==
    \E ids \in SUBSET IdDom, fault \in CloseFaults :
        LET out == CloseLotsOutcome(txns, ids, fault)
        IN  /\ UNCHANGED <<rebalanceVars, serviceVars>>
            /\ txns' = out.txns
            /\ last' = [Call("close", ids, out.resp, out.count, out.fault)
                        EXCEPT !.again = IF /\ last.op = "close"
                                            /\ last.ids = ids
                                            /\ last.resp \in {200, 404}
                                         THEN last.resp ELSE 0]

\* ------------------------------------------------------------ overamt batch

\* Prices in cents, target allocations in percent.
PriceDom == {100, 200}

AllocDom == {0, 50, 100}

NoFlag == "null"

MptRow(alloc, overamt, flag) == [target_alloc |-> alloc, overamt |-> overamt, flag |-> flag]

\* The overamt and flag columns of the MPT table.
Stored(m) == [s \in Symbols |-> [overamt |-> m[s].overamt, flag |-> m[s].flag]]

NoWrites == [s \in Symbols |-> Null]

\* SELECT SUM(units) FROM transactions WHERE xtype = :type AND symbol = :symbol,
\* over the first n rows of t; a NULL sum counts as 0.
RECURSIVE SumUnits(_, _, _, _)
SumUnits(t, type, s, n) ==
    IF n = 0 THEN 0
    ELSE SumUnits(t, type, s, n - 1)
         + (IF t[n].xtype = type /\ t[n].symbol = s THEN t[n].units ELSE 0)

\* net_units = buy_units - sell_units
NetUnits(t, s) == SumUnits(t, "Buy", s, Len(t)) - SumUnits(t, "Sell", s, Len(t))

\* get_position, the net_units column: SUM of units_remaining (units when it is
\* NULL) over the rows with xtype = 'Buy' AND disposition IS NULL of the
\* symbol, over the first n rows of t; 0 when no row matches.
RECURSIVE SumOpenUnits(_, _, _)
SumOpenUnits(t, s, n) ==
    IF n = 0 THEN 0
    ELSE SumOpenUnits(t, s, n - 1)
         + (IF t[n].xtype = "Buy" /\ t[n].symbol = s /\ t[n].disposition = "null"
            THEN EffectiveRemaining(t[n]) ELSE 0)

OpenLotUnits(t, s) == SumOpenUnits(t, s, Len(t))

\* SELECT DISTINCT symbol FROM transactions
TradedSymbols(t) == {t[i].symbol : i \in 1..Len(t)}

\* calculate_portfolio_value, one symbol of its loop: nothing for a symbol
\* with net_units <= 0 or without a price row.
HoldingValue(t, p, s) ==
    IF s \notin TradedSymbols(t) \/ NetUnits(t, s) <= 0 \/ IsNull(p[s])
    THEN 0
    ELSE NetUnits(t, s) * Val(p[s])

RECURSIVE SumValue(_, _, _)
SumValue(t, p, n) ==
    IF n = 0 THEN 0 ELSE SumValue(t, p, n - 1) + HoldingValue(t, p, SymbolOrder[n])

\* calculate_portfolio_value without an exception.
CalculatePortfolioValue(t, p) == SumValue(t, p, Len(SymbolOrder))

\* get_position_value without an exception: 0.0 without a price row.
GetPositionValue(t, p, s) ==
    IF IsNull(p[s]) THEN 0 ELSE NetUnits(t, s) * Val(p[s])

\* round(num / den, 0) for den > 0, ties to the even neighbour as Python's
\* round does.
RoundHalfEven(num, den) ==
    LET q == num \div den
        r == num % den
    IN  IF 2 * r < den THEN q
        ELSE IF 2 * r > den THEN q + 1
        ELSE IF q % 2 = 0 THEN q ELSE q + 1

\* target_value = round(target_alloc * portfolio_value, 2), in cents.
TargetValue(alloc, value) == RoundHalfEven(alloc * value, 100)

\* diff_amount = round(position_value - target_value, 2), in cents.
DiffAmount(position, target) == position - target

\* The flag of a diff_amount: 'U' below -1 dollar, 'H' strictly between -1
\* dollar and 0, 'O' otherwise.
Flag(diff) ==
    IF diff < -100 THEN "U"
    ELSE IF diff > -100 /\ diff < 0 THEN "H"
    ELSE "O"

\* A test that lets a portfolio worth nothing through.
PortfolioAbort_NegativeOnly(value) == value < 0

\* if portfolio_value <= 0: return False
PortfolioAbort(value) == value <= 0

\* A session that commits every statement as it is executed.
SessionWrite_Autocommit(store, sess, s, row) ==
    [store |-> [store EXCEPT ![s].overamt = Some(row.overamt), ![s].flag = row.flag],
     sess |-> sess]

\* db.execute(update_query) in a session made with autocommit=False: the
\* write stays in the session until the commit.
SessionWrite(store, sess, s, row) ==
    [store |-> store, sess |-> [sess EXCEPT ![s] = Some(row)]]

\* db.commit(): the session's writes reach the store together.
Commit(store, sess) ==
    [s \in Symbols |->
        IF IsNull(sess[s]) THEN store[s]
        ELSE [store[s] EXCEPT !.overamt = Some(Val(sess[s]).overamt),
                              !.flag = Val(sess[s]).flag]]

Written(sess) == Cardinality({s \in Symbols : ~IsNull(sess[s])})

\* The faults a step may take: none, or one of sites while the budget lasts.
FaultsAt(sites) == {"none"} \cup (IF faults < MaxFaults THEN sites ELSE {})

Injected(fault) == IF fault = "none" THEN 0 ELSE 1

\* The except branch of run_update: rollback, return False.
BatchAbort(fault) ==
    /\ pending' = NoWrites
    /\ mpt' = mpt
    /\ ret' = "False"
    /\ pc' = "idle"
    /\ raised' = raised \cup {fault}

\* run_update up to the loop: the portfolio value (0.0 when a query of
\* calculate_portfolio_value raises), the test for a value <= 0, the list of
\* MPT rows.
BatchStart ==
    /\ pc = "idle"
    /\ runs < MaxRuns
    /\ \E fault \in FaultsAt({"value"}) :
          LET value == IF fault = "value" THEN 0
                       ELSE CalculatePortfolioValue(txns, prices)
          IN  /\ pv' = value
              /\ faults' = faults + Injected(fault)
              /\ raised' = IF fault = "none" THEN {} ELSE {fault}
              /\ IF PortfolioAbort(value)
                 THEN pc' = "idle" /\ ret' = "False"
                 ELSE pc' = "loop" /\ ret' = "none"
    /\ runs' = runs + 1
    /\ idx' = 1
    /\ pending' = NoWrites
    /\ before' = Stored(mpt)
    /\ reads' = {}
    /\ rerun' = (ret = "True" /\ stable)
    /\ stable' = TRUE
    /\ UNCHANGED <<ledgerVars, serviceVars, prices, mpt, changes>>

\* One pass of the loop over the MPT rows.  A NULL target_alloc raises in
\* round(); a target value of 0 is skipped; an exception in get_position_value
\* is caught there and 0.0 returned; an exception of the UPDATE reaches the
\* except branch of run_update.
BatchSymbol ==
    /\ pc = "loop"
    /\ LET s == SymbolOrder[idx]
           alloc == mpt[s].target_alloc
           next == IF idx = Len(SymbolOrder) THEN "commit" ELSE "loop"
       IN  IF IsNull(alloc)
           THEN /\ BatchAbort("round")
                /\ UNCHANGED <<idx, faults>>
           ELSE IF TargetValue(Val(alloc), pv) = 0
           THEN /\ idx' = idx + 1
                /\ pc' = next
                /\ UNCHANGED <<pending, mpt, ret, raised, faults>>
           ELSE \E fault \in FaultsAt({"read", "write"}) :
                   LET position == IF fault = "read" THEN 0
                                   ELSE GetPositionValue(txns, prices, s)
                       diff == DiffAmount(position, TargetValue(Val(alloc), pv))
                       out == SessionWrite(mpt, pending, s,
                                           [overamt |-> diff, flag |-> Flag(diff)])
                   IN  /\ faults' = faults + Injected(fault)
                       /\ IF fault = "write"
                          THEN BatchAbort(fault) /\ UNCHANGED idx
                          ELSE /\ mpt' = out.store
                               /\ pending' = out.sess
                               /\ idx' = idx + 1
                               /\ pc' = next
                               /\ raised' = IF fault = "read"
                                            THEN raised \cup {fault} ELSE raised
                               /\ UNCHANGED ret
    /\ UNCHANGED <<ledgerVars, serviceVars, prices, changes, pv, before, reads, rerun, stable, runs>>

\* db.commit() after the loop, then return True.
BatchCommit ==
    /\ pc = "commit"
    /\ \E fault \in FaultsAt({"commit"}) :
          /\ faults' = faults + Injected(fault)
          /\ IF fault = "commit"
             THEN BatchAbort(fault)
             ELSE /\ mpt' = Commit(mpt, pending)
                  /\ pending' = NoWrites
                  /\ ret' = "True"
                  /\ pc' = "idle"
                  /\ UNCHANGED raised
    /\ UNCHANGED <<ledgerVars, serviceVars, prices, changes, pv, idx, before, reads, rerun, stable, runs>>

\* A reader of the MPT table on its own connection, while a run is under way:
\* it sees the committed rows.
ReadMpt ==
    /\ pc # "idle"
    /\ reads' = reads \cup {[wrote |-> Written(pending), rows |-> Stored(mpt)]}
    /\ UNCHANGED <<ledgerVars, serviceVars, prices, mpt, changes,
                   pc, pv, idx, pending, ret, before, raised, rerun, stable, runs, faults>>

\* update_prices, one ticker: UPDATE prices SET price = :price and commit.
\* SQLite admits one writer: it waits while run_update holds uncommitted
\* writes.
PriceUpdate ==
    /\ changes < MaxChanges
    /\ Written(pending) = 0
    /\ \E s \in Symbols, p \in PriceDom :
          /\ ~IsNull(prices[s])
          /\ Val(prices[s]) # p
          /\ prices' = [prices EXCEPT ![s] = Some(p)]
    /\ changes' = changes + 1
    /\ stable' = FALSE
    /\ UNCHANGED <<ledgerVars, serviceVars, mpt,
                   pc, pv, idx, pending, ret, before, reads, raised, rerun, runs, faults>>

\* ------------------------------------------------- services at startup

\* Task ids are uuid4 strings, never issued twice; here they are numbered.
TaskIds == 1..MaxTasks

\* Ids registered by register_jobs.  moving_averages_job is registered
\* and handled exactly as price_updater_job and is left out.
JobIds == {"update_overamt_job", "price_updater_job"}

Origins == {"scheduled", "manual"}

NoHandler == [op |-> "none", job |-> "none", at |-> "idle", loaded |-> << >>]

\* A fresh process: an empty task_storage, a scheduler not yet started, and
\* the job_states.json the processes before it left behind.
ServicesStart(file) ==
    /\ task_storage = [t \in TaskIds |-> Null]
    /\ tline = [t \in TaskIds |-> "none"]
    /\ running = FALSE
    /\ paused = {}
    /\ job_states = file
    /\ handlers = [h \in 1..MaxHandlers |-> NoHandler]
    /\ execs = [j \in JobIds |-> [o \in Origins |-> 0]]
    /\ settled = [j \in JobIds |-> "none"]

\* The first process: no job_states.json yet.
ServicesIdle == ServicesStart([j \in JobIds |-> "absent"])

\* No run of run_update yet.
BatchIdle ==
    /\ pc = "idle"
    /\ pv = 0
    /\ idx = 1
    /\ pending = NoWrites
    /\ ret = "none"
    /\ before = Stored(mpt)
    /\ reads = {}
    /\ raised = {}
    /\ rerun = FALSE
    /\ stable = TRUE
    /\ runs = 0
    /\ changes = 0
    /\ faults = 0

Init ==
    /\ txns = << >>
    /\ last = NoCall
    /\ prices = [s \in Symbols |-> Some(100)]
    /\ mpt = [s \in Symbols |-> MptRow(Some(50), Null, NoFlag)]
    /\ BatchIdle
    /\ ServicesIdle

Next ==
    \/ CreateTransaction
    \/ UpdateTransaction
    \/ CloseLots

\* The ledger: every create, update and close request.
Spec == Init /\ [][Next]_vars

\* The lots as close_lots sees them.  close_lots reads and writes the id and
\* disposition columns alone, so the rows here are one-unit Buy lots and the
\* update payloads resend them, with any disposition.
CreateLot == Create({"A"}, {"Buy"}, {1})

UpdateDisposition == Update({"A"}, {"Buy"}, {1}, {Null})

NextLots ==
    \/ CreateLot
    \/ UpdateDisposition
    \/ CloseLots

SpecLots == Init /\ [][NextLots]_vars

\* The batch.  It starts from a table of one-unit transactions as
\* create_transaction leaves them (nothing held, A held, A and B held, A
\* bought and sold, B sold short), a prices table with or without a row for
\* B, target allocations (NULL for a row as add-security inserts it), and
\* overamt/flag columns either never written or left by an earlier run.
Portfolios ==
    { << >>,
      <<CreatedRow("A", "Buy", 1)>>,
      <<CreatedRow("A", "Buy", 1), CreatedRow("B", "Buy", 1)>>,
      <<CreatedRow("A", "Buy", 1), CreatedRow("A", "Sell", 1)>>,
      <<CreatedRow("A", "Buy", 1), CreatedRow("B", "Sell", 1)>> }

PriceTables ==
    {p \in [Symbols -> {Null} \cup {Some(c) : c \in PriceDom}] : p["A"] = Some(100)}

Targets ==
    {t \in [Symbols -> {Null} \cup {Some(a) : a \in AllocDom}] : ~IsNull(t["A"])}

StoredColumns == {[overamt |-> Null, flag |-> NoFlag], [overamt |-> Some(700), flag |-> "O"]}

InitRebalance ==
    /\ txns \in Portfolios
    /\ last = NoCall
    /\ prices \in PriceTables
    /\ \E target \in Targets, old \in StoredColumns :
          mpt = [s \in Symbols |-> MptRow(target[s], old.overamt, old.flag)]
    /\ BatchIdle
    /\ ServicesIdle

NextRebalance ==
    \/ BatchStart
    \/ BatchSymbol
    \/ BatchCommit
    \/ ReadMpt
    \/ PriceUpdate

SpecRebalance == InitRebalance /\ [][NextRebalance]_vars

\* ----------------------------------------------------------- potential lots

\* A transactions row with its date_new and price columns as well.
LotRow(symbol, type, units, ur, disp, date, price) ==
    [symbol |-> symbol, xtype |-> type, units |-> units, units_remaining |-> ur,
     disposition |-> disp, date_new |-> date, price |-> price]

\* Values of date_new: two dates in the form '%Y-%m-%d', a string in another
\* form, and NULL.
DateStrings == {"2024-03-01", "2026-03-01", "03/01/2024"}

DateDom == {Null} \cup {Some(d) : d \in DateStrings}

\* datetime.strptime(s, '%Y-%m-%d') raises ValueError.
StrptimeRaises(s) == s \notin {"2024-03-01", "2026-03-01"}

\* (datetime.now().date() - purchase_date).days for a parsed date.
DaysHeld(s) == IF s = "2024-03-01" THEN 700 ELSE 200

\* .days > 365
LongTermDays == 365

\* Python's truth value of a nullable number: None and 0 are false.
Truthy(x) == ~IsNull(x) /\ Val(x) # 0

SymbolIndex(s) == CHOOSE i \in 1..Len(SymbolOrder) : SymbolOrder[i] = s

\* overweight_query, the WHERE clause: flag = 'O' AND overamt > :threshold
\* (a NULL overamt is not selected).
OverweightSymbols(m, threshold) ==
    {s \in Symbols : /\ m[s].flag = "O"
                     /\ ~IsNull(m[s].overamt)
                     /\ Val(m[s].overamt) > threshold}

\* overweight_query, ORDER BY overamt DESC over the symbols S (equal values in
\* the order of the table).
RECURSIVE OrderByOveramt(_, _)
OrderByOveramt(m, S) ==
    IF S = {} THEN << >>
    ELSE LET top == CHOOSE s \in S : \A o \in S :
                        \/ Val(m[s].overamt) > Val(m[o].overamt)
                        \/ /\ Val(m[s].overamt) = Val(m[o].overamt)
                           /\ SymbolIndex(s) <= SymbolIndex(o)
         IN  <<top>> \o OrderByOveramt(m, S \ {top})

\* lots_query: the ids of the rows with the symbol, xtype = 'Buy' and
\* disposition IS NULL, in table order.
OpenLotIds(t, s) ==
    SelectSeq([i \in 1..Len(t) |-> i],
              LAMBDA i : /\ t[i].symbol = s
                         /\ t[i].xtype = "Buy"
                         /\ t[i].disposition = "null")

\* The lots in the order the two loops reach them: for each overweight
\* position that is not below the threshold and has a prices row, its open
\* lots.
RECURSIVE ScanOrder(_, _, _, _, _)
ScanOrder(t, m, p, threshold, positions) ==
    IF positions = << >> THEN << >>
    ELSE LET s == Head(positions)
             lots == IF Val(m[s].overamt) < threshold \/ IsNull(p[s])
                     THEN << >> ELSE OpenLotIds(t, s)
         IN  lots \o ScanOrder(t, m, p, threshold, Tail(positions))

\* purchase_date: a local that holds nothing until its first assignment.
Unbound == [bound |-> FALSE, value |-> Null]

Bound(v) == [bound |-> TRUE, value |-> v]

\* round((profit / cost) * 100, 3), in thousandths of a percent.
ProfitPct(profit, cost) ==
    IF cost > 0 THEN RoundHalfEven(profit * 100000, cost)
    ELSE RoundHalfEven((0 - profit) * 100000, 0 - cost)

\* units = float(lot.units_remaining if lot.units_remaining else lot.units)
LotUnits(lot) ==
    IF Truthy(lot.units_remaining) THEN Val(lot.units_remaining) ELSE lot.units

\* The body of the loop over the lots, for lot i of table t at current price
\* cp.  st holds the entries appended so far, purchase_date, and whether an
\* exception has left the loops.  The entry's lot field names the row it was
\* built from; it is not part of the response.
ScanLot(st, t, i, cp, target_diff, th) ==
    LET lot == t[i]
        units == LotUnits(lot)
        current_value == cp * units
        cost == lot.price * units
        profit == current_value - cost
        isstr == ~IsNull(lot.date_new)
        parsed == isstr /\ ~StrptimeRaises(Val(lot.date_new))
        purchase_date == IF parsed THEN Bound(lot.date_new)
                         ELSE IF isstr THEN st.purchase_date
                         ELSE Bound(Null)
        is_long_term == parsed /\ DaysHeld(Val(lot.date_new)) > LongTermDays
    IN  IF st.error THEN st
        ELSE IF lot.price = 0 THEN st
        ELSE IF lot.price >= cp THEN st
        ELSE IF cost = 0 THEN [st EXCEPT !.error = TRUE]
        ELSE IF profit < th.profit \/ current_value < th.lot_value THEN st
        ELSE IF ~purchase_date.bound
        THEN [st EXCEPT !.error = TRUE]
        ELSE [st EXCEPT
                 !.purchase_date = purchase_date,
                 !.rows = Append(@, [lot |-> i,
                                     symbol |-> lot.symbol,
                                     date |-> purchase_date.value,
                                     units |-> units,
                                     current_price |-> cp,
                                     current_value |-> current_value,
                                     profit |-> profit,
                                     profit_pct |-> ProfitPct(profit, cost),
                                     is_long_term |-> is_long_term,
                                     target_diff |-> target_diff])]

\* The two loops over the lots in scan order.
RECURSIVE ScanLots(_, _, _, _, _, _)
ScanLots(st, t, m, p, th, order) ==
    IF order = << >> THEN st
    ELSE LET i == Head(order)
             s == t[i].symbol
         IN  ScanLots(ScanLot(st, t, i, Val(p[s]), Val(m[s].overamt), th),
                      t, m, p, th, Tail(order))

\* potential_lots.sort(key=profit_pct, reverse=True): stable, so entries with
\* equal keys keep their order.
RECURSIVE SortByProfitPct(_)
SortByProfitPct(rows) ==
    IF rows = << >> THEN << >>
    ELSE LET n == Len(rows)
             sorted == SortByProfitPct(SubSeq(rows, 1, n - 1))
             r == rows[n]
             ahead == SelectSeq(sorted, LAMBDA x : x.profit_pct >= r.profit_pct)
             behind == SelectSeq(sorted, LAMBDA x : x.profit_pct < r.profit_pct)
         IN  ahead \o <<r>> \o behind

\* get_potential_lots as a whole: 500 when an exception left the loops, or
\* when an entry's date is None, which the response model (date: date)
\* rejects; else 200 and the sorted entries.
PotentialLots(t, m, p, th) ==
    LET order == ScanOrder(t, m, p, th.overweight,
                           OrderByOveramt(m, OverweightSymbols(m, th.overweight)))
        st == ScanLots([rows |-> << >>, purchase_date |-> Unbound, error |-> FALSE],
                       t, m, p, th, order)
        failed == st.error \/ \E k \in 1..Len(st.rows) : IsNull(st.rows[k].date)
    IN  [op |-> "potential-lots", th |-> th,
         resp |-> IF failed THEN 500 ELSE 200,
         rows |-> IF failed THEN << >> ELSE SortByProfitPct(st.rows)]

\* Thresholds of a request in cents; the defaults are 0.6, 1.0 and 8.6.
Thresholds ==
    [profit : {60, 150}, lot_value : {100, 500}, overweight : {860}]

GetPotentialLots ==
    /\ \E th \in Thresholds : last' = PotentialLots(txns, mpt, prices, th)
    /\ UNCHANGED <<txns, rebalanceVars, serviceVars>>

\* The selector.  It starts from a table of one or two two-unit Buy rows, the
\* first with any symbol, units_remaining, disposition, date_new and price
\* (a price below 0 is one create_transaction accepts), the second a lot of A
\* bought at 1.00 with any date_new; prices 2.00 for B and 2.00 or no row for
\* A; and overamt/flag columns as run_update leaves them.
FirstLots ==
    {LotRow(s, "Buy", 2, ur, disp, date, price) :
        s \in Symbols, ur \in {Null, Some(0), Some(1)}, disp \in {"null", "sold"},
        date \in DateDom, price \in {-100, 0, 100, 300}}

SecondLots == {LotRow("A", "Buy", 2, Null, "null", date, 100) : date \in DateDom}

LotTables ==
    {<<a>> : a \in FirstLots} \cup {<<a, b>> : a \in FirstLots, b \in SecondLots}

SelectorColumns ==
    {[overamt |-> Null, flag |-> NoFlag], [overamt |-> Some(900), flag |-> "O"],
     [overamt |-> Some(860), flag |-> "O"], [overamt |-> Some(-500), flag |-> "U"]}

InitSelector ==
    /\ txns \in LotTables
    /\ last = NoCall
    /\ prices \in {p \in [Symbols -> {Null, Some(200)}] : p["B"] = Some(200)}
    /\ \E a \in SelectorColumns :
          mpt = [s \in Symbols |->
                    IF s = "A" THEN MptRow(Some(50), a.overamt, a.flag)
                    ELSE MptRow(Some(50), Some(900), "O")]
    /\ BatchIdle
    /\ ServicesIdle

\* The open_lots view that crud.get_open_lots selects from: the Buy rows
\* whose disposition is NULL, in table order.
OpenLotsView(t) ==
    SelectSeq([i \in 1..Len(t) |-> i],
              LAMBDA i : t[i].xtype = "Buy" /\ t[i].disposition = "null")

\* round(x / y * 100, 2) for y # 0, in hundredths of a percent.
PlPct(x, y) ==
    IF y > 0 THEN RoundHalfEven(x * 10000, y)
    ELSE RoundHalfEven((0 - x) * 10000, 0 - y)

\* get_open_lots, the entry of lot i: `lot.units_remaining or lot.units`
\* units; the value at current_prices.get(symbol, 0), never None; profit_loss
\* and pl_pct None without a prices row.  raises: strptime rejects the date, or pl_pct
\* divides by a basis of 0.
OpenLotEntry(t, p, i) ==
    LET lot == t[i]
        units == LotUnits(lot)
        priced == ~IsNull(p[lot.symbol])
        basis == units * lot.price
        value == units * (IF priced THEN Val(p[lot.symbol]) ELSE 0)
        isstr == ~IsNull(lot.date_new)
    IN  [id |-> i,
         symbol |-> lot.symbol,
         date_new |-> lot.date_new,
         units |-> lot.units,
         units_remaining |-> lot.units_remaining,
         price |-> lot.price,
         raises |-> \/ isstr /\ StrptimeRaises(Val(lot.date_new))
                    \/ priced /\ basis = 0,
         term |-> IF /\ isstr
                     /\ ~StrptimeRaises(Val(lot.date_new))
                     /\ DaysHeld(Val(lot.date_new)) > LongTermDays
                  THEN "Long-term" ELSE "Short-term",
         lot_basis |-> Some(basis),
         current_value |-> Some(value),
         profit_loss |-> IF priced THEN Some(value - basis) ELSE Null,
         pl_pct |-> IF priced /\ basis # 0
                    THEN Some(PlPct(value - basis, basis)) ELSE Null]

\* get_open_lots as a whole: the entries of all open lots, or 500 when
\* building one of them raises.
OpenLots(t, p) ==
    LET view == OpenLotsView(t)
        rows == [k \in 1..Len(view) |-> OpenLotEntry(t, p, view[k])]
    IN  IF \E k \in 1..Len(rows) : rows[k].raises
        THEN [op |-> "open-lots", resp |-> 500, rows |-> << >>]
        ELSE [op |-> "open-lots", resp |-> 200, rows |-> rows]

GetOpenLots ==
    /\ last' = OpenLots(txns, prices)
    /\ UNCHANGED <<txns, rebalanceVars, serviceVars>>

NextSelector ==
    \/ GetPotentialLots
    \/ GetOpenLots

SpecSelector == InitSelector /\ [][NextSelector]_vars

\* ---------------------------------------------------------------- dividends

\* A date_new string by its parts: 'YYYY-MM-DD' (sep "-") or, a form strptime
\* rejects, 'YYYY/MM/DD' (sep "/").
DateStr(sep, y, m, d) == [sep |-> sep, y |-> y, m |-> m, d |-> d]

\* Comparison of two such strings as SQLite compares text ('-' sorts before
\* '/').
TextLess(a, b) ==
    \/ a.y < b.y
    \/ a.y = b.y /\ a.sep = "-" /\ b.sep = "/"
    \/ a.y = b.y /\ a.sep = b.sep /\ a.m < b.m
    \/ a.y = b.y /\ a.sep = b.sep /\ a.m = b.m /\ a.d < b.d

\* The calendar of datetime.
IsLeap(y) == y % 4 = 0 /\ (y % 100 # 0 \/ y % 400 = 0)

DaysInYear(y) == IF IsLeap(y) THEN 366 ELSE 365

DaysInMonth(y, m) ==
    IF m = 2 THEN (IF IsLeap(y) THEN 29 ELSE 28)
    ELSE IF m \in {4, 6, 9, 11} THEN 30 ELSE 31

RECURSIVE DaysBeforeYear(_)
DaysBeforeYear(y) ==
    IF y <= 2020 THEN 0 ELSE DaysBeforeYear(y - 1) + DaysInYear(y - 1)

RECURSIVE DaysBeforeMonth(_, _)
DaysBeforeMonth(y, m) ==
    IF m <= 1 THEN 0 ELSE DaysBeforeMonth(y, m - 1) + DaysInMonth(y, m - 1)

\* A datetime as a day count (day 1 is 2020-01-01), so that the difference
\* of two is timedelta.days.
Ordinal(y, m, d) == DaysBeforeYear(y) + DaysBeforeMonth(y, m) + d

RECURSIVE MonthOfYearDay(_, _, _)
MonthOfYearDay(y, m, n) ==
    IF n <= DaysInMonth(y, m) THEN [y |-> y, m |-> m, d |-> n]
    ELSE MonthOfYearDay(y, m + 1, n - DaysInMonth(y, m))

RECURSIVE DateOfOrdinal(_, _)
DateOfOrdinal(y, n) ==
    IF n <= DaysInYear(y) THEN MonthOfYearDay(y, 1, n)
    ELSE DateOfOrdinal(y + 1, n - DaysInYear(y))

\* datetime + timedelta(days): the year and month of the result.
FromOrdinal(n) == DateOfOrdinal(2020, n)

\* datetime.now() and Date('now'): the day the requests are made.
Now == DateStr("-", 2026, 11, 5)

\* Date('now', '-N months') for N a multiple of 12.
MonthsAgo(months) == DateStr("-", Now.y - months \div 12, Now.m, Now.d)

\* A dividend row: xtype 'Div', price the amount per unit in cents.
DivRow(symbol, date, price, units) == LotRow(symbol, "Div", units, Null, "null", date, price)

\* WHERE symbol = :symbol AND date_new >= Date('now', '-N months') AND
\* xtype = 'Div' ORDER BY date_new, on table t: the ids of the rows selected,
\* in order (rows with equal dates in table order).
DividendIds(t, symbol, months) ==
    {i \in 1..Len(t) : /\ t[i].symbol = symbol
                       /\ t[i].xtype = "Div"
                       /\ ~IsNull(t[i].date_new)
                       /\ ~TextLess(Val(t[i].date_new), MonthsAgo(months))}

RowBefore(t, i, j) ==
    \/ TextLess(Val(t[i].date_new), Val(t[j].date_new))
    \/ ~TextLess(Val(t[j].date_new), Val(t[i].date_new)) /\ i < j

RECURSIVE OrderByDate(_, _)
OrderByDate(t, ids) ==
    IF ids = {} THEN << >>
    ELSE LET first == CHOOSE i \in ids : \A j \in ids \ {i} : RowBefore(t, i, j)
         IN  <<t[first]>> \o OrderByDate(t, ids \ {first})

\* datetime.strptime(date_str, '%Y-%m-%d') raises ValueError.
ParseRaises(date) == date.sep # "-"

\* payment_dates: the rows whose date parses, in order.
PaymentDates(result) ==
    LET good == SelectSeq(result, LAMBDA r : ~ParseRaises(Val(r.date_new)))
    IN  [k \in 1..Len(good) |-> Val(good[k].date_new)]

\* intervals: the days between successive payment dates.
Intervals(dates) ==
    [k \in 1..(IF Len(dates) = 0 THEN 0 ELSE Len(dates) - 1) |->
        Ordinal(dates[k + 1].y, dates[k + 1].m, dates[k + 1].d)
        - Ordinal(dates[k].y, dates[k].m, dates[k].d)]

RECURSIVE SeqSum(_)
SeqSum(q) == IF q = << >> THEN 0 ELSE Head(q) + SeqSum(Tail(q))

\* years_data: the payments of each calendar year.
YearsData(dates) ==
    [y \in {dates[k].y : k \in 1..Len(dates)} |->
        Cardinality({k \in 1..Len(dates) : dates[k].y = y})]

\* The integer nearest a * sqrt(v) / b, for v >= 0 and a, b > 0.
NearestRoot(v, a, b) ==
    CHOOSE r \in 0..3000 :
        /\ (r = 0 \/ (2 * r - 1) * (2 * r - 1) * b * b <= 4 * a * a * v)
        /\ 4 * a * a * v < (2 * r + 1) * (2 * r + 1) * b * b

\* A test that asks for two payments only.
TooFewPayments_Two(n) == n < 2

\* if len(result) < 3
TooFewPayments(n) == n < 3

\* The two early returns of detect_payment_frequency.
Fallback(symbol, reason, n) ==
    [symbol |-> symbol, frequency |-> "quarterly", confidence |-> 0,
     reason |-> reason, data_points |-> n, intervals |-> << >>]

\* detect_payment_frequency from the intervals on: n intervals of sum s and
\* sum of squares q, so that the mean is s / n and the variance
\* (n * q - s * s) / (n * n).  confidence is in hundredths, avg_interval_days
\* and interval_std_dev in tenths.
Classify(symbol, result, dates, intervals) ==
    LET n == Len(intervals)
        s == SeqSum(intervals)
        q == SeqSum([k \in 1..n |-> intervals[k] * intervals[k]])
        v == n * q - s * s
        years_data == YearsData(dates)
        years == DOMAIN years_data
        full == {y \in years : \E a \in years : a < y /\ \E b \in years : y < b}
        paid == SeqSum([k \in 1..Len(dates) |-> IF dates[k].y \in full THEN 1 ELSE 0])
        count == Cardinality(full)
        verdict ==
            IF 25 * n <= s /\ s <= 35 * n /\ v < 100 * n * n
            THEN [frequency |-> "monthly", reason |-> "interval_analysis",
                  confidence |-> 90 - NearestRoot(v, 1, n)]
            ELSE IF 80 * n <= s /\ s <= 100 * n /\ v < 225 * n * n
            THEN [frequency |-> "quarterly", reason |-> "interval_analysis",
                  confidence |-> 90 - NearestRoot(v, 2, 3 * n)]
            ELSE IF count > 0 /\ paid > 0 /\ paid >= 10 * count
            THEN [frequency |-> "monthly", reason |-> "payment_count",
                  confidence |-> 70]
            ELSE IF count > 0 /\ paid >= 3 * count /\ paid <= 5 * count
            THEN [frequency |-> "quarterly", reason |-> "payment_count",
                  confidence |-> 70]
            ELSE [frequency |-> "quarterly", reason |-> "inconclusive",
                  confidence |-> 0]
    IN  [symbol |-> symbol,
         frequency |-> verdict.frequency,
         confidence |-> verdict.confidence,
         reason |-> verdict.reason,
         data_points |-> Len(result),
         avg_interval_days |-> RoundHalfEven(10 * s, n),
         interval_std_dev |-> NearestRoot(v, 10, n),
         intervals |-> intervals,
         payments_by_year |-> years_data]

\* detect_payment_frequency on table t.
DetectPaymentFrequency(t, symbol) ==
    LET result == OrderByDate(t, DividendIds(t, symbol, 36))
        dates == PaymentDates(result)
        intervals == Intervals(dates)
    IN  IF TooFewPayments(Len(result))
        THEN Fallback(symbol, "insufficient_data", Len(result))
        ELSE IF intervals = << >>
        THEN Fallback(symbol, "parsing_error", Len(result))
        ELSE Classify(symbol, result, dates, intervals)

\* GET /dividends/frequency/{symbol}: the record of detect_payment_frequency.
GetDividendFrequency ==
    /\ \E symbol \in Symbols :
          last' = [op |-> "frequency", symbol |-> symbol, resp |-> 200,
                   body |-> DetectPaymentFrequency(txns, symbol)]
    /\ UNCHANGED <<txns, rebalanceVars, serviceVars>>

\* substr(date_new, 0, 8): the text 'YYYY-MM' (or 'YYYY/MM') of a date_new.
MonthOf(date) == [sep |-> date.sep, y |-> date.y, m |-> date.m, d |-> 0]

\* The history query of get_symbol_prediction: GROUP BY month, SUM(price *
\* units), ORDER BY date_new, over the rows of the symbol's last 24 months.
RECURSIVE OrderMonths(_, _, _)
OrderMonths(t, ids, months) ==
    IF months = {} THEN << >>
    ELSE LET first == CHOOSE a \in months : \A b \in months \ {a} : TextLess(a, b)
             rows == OrderByDate(t, {i \in ids : MonthOf(Val(t[i].date_new)) = first})
         IN  <<[date |-> first,
                cost |-> SeqSum([k \in 1..Len(rows) |-> rows[k].price * rows[k].units])]>>
             \o OrderMonths(t, ids, months \ {first})

History(t, symbol) ==
    LET ids == DividendIds(t, symbol, 24)
    IN  OrderMonths(t, ids, {MonthOf(Val(t[i].date_new)) : i \in ids})

\* The sums of the regression over x = 1..n and y = the costs.  slope is
\* p / d and intercept c / (n * d), for
\*   d = n * sum_xx - sum_x^2, p = n * sum_xy - sum_x * sum_y,
\*   c = sum_y * d - p * sum_x;
\* the code's own denominator, sum_xx - n * average_x^2, is d / n.
Regression(costs) ==
    LET n == Len(costs)
        sum_x == SeqSum([k \in 1..n |-> k])
        sum_y == SeqSum(costs)
        sum_xy == SeqSum([k \in 1..n |-> k * costs[k]])
        sum_xx == SeqSum([k \in 1..n |-> k * k])
        d == n * sum_xx - sum_x * sum_x
        p == n * sum_xy - sum_x * sum_y
    IN  [n |-> n, d |-> d, p |-> p, c |-> sum_y * d - p * sum_x]

\* intercept + slope * x, clamped at 0 and rounded to cents.
PredictedCost(fit, x) ==
    LET num == fit.c + fit.p * x * fit.n
        den == fit.n * fit.d
    IN  IF num < 0 THEN 0 ELSE RoundHalfEven(num, den)

\* MAX_PREDICTION_DATE = datetime(2038, 11, 1)
MaxPredictionDate == DateStr("-", 2038, 11, 1)

\* The while loop: pass i appends the point dated interval * 30 * (i + 1) days
\* after last_date (lastDay, a day count), and the loop ends at the first
\* pass whose date is past MAX_PREDICTION_DATE.
Passes(lastDay, interval) ==
    LET room == Ordinal(MaxPredictionDate.y, MaxPredictionDate.m, MaxPredictionDate.d)
                - lastDay
    IN  IF room < 0 THEN 0 ELSE room \div (interval * 30)

ForecastPoint(symbol, fit, lastDay, interval, i) ==
    LET month == FromOrdinal(lastDay + interval * 30 * (i + 1))
    IN  [date |-> [y |-> month.y, m |-> month.m],
         symbol |-> symbol,
         cost |-> PredictedCost(fit, fit.n + i * interval)]

Forecast(symbol, fit, lastDay, interval) ==
    [k \in 1..Passes(lastDay, interval) |->
        ForecastPoint(symbol, fit, lastDay, interval, k - 1)]

\* forecast[-3:] if len(forecast) >= 3 else forecast
LastThree(forecast) ==
    IF Len(forecast) >= 3
    THEN SubSeq(forecast, Len(forecast) - 2, Len(forecast)) ELSE forecast

\* except Exception as e: raise HTTPException(status_code=500, ...): every
\* exception of the body, an HTTPException raised there too, is answered 500.
Reraise(status) == 500

\* get_symbol_prediction.  is_monthly is Null when the request has none and
\* detect_payment_frequency decides.  The fit field holds the locals of the
\* regression; it is not part of the response.
SymbolPrediction(t, symbol, is_monthly) ==
    LET monthly == IF IsNull(is_monthly)
                   THEN DetectPaymentFrequency(t, symbol).frequency = "monthly"
                   ELSE Val(is_monthly)
        history == History(t, symbol)
        fit == Regression([k \in 1..Len(history) |-> history[k].cost])
        last_data_date == history[Len(history)].date
        last_date == IF last_data_date.sep = "-"
                     THEN Ordinal(last_data_date.y, last_data_date.m, 1)
                     ELSE Ordinal(Now.y, Now.m, 1)
        forecast == Forecast(symbol, fit, last_date, IF monthly THEN 1 ELSE 3)
        failure(status) == [op |-> "prediction", symbol |-> symbol, resp |-> status]
    IN  IF history = << >> THEN failure(Reraise(404))
        ELSE IF fit.d = 0 THEN failure(Reraise(500))
        ELSE [op |-> "prediction", symbol |-> symbol, resp |-> 200, fit |-> fit,
              body |-> [symbol |-> symbol, is_monthly |-> monthly,
                        last_three |-> LastThree(forecast),
                        complete_forecast |-> forecast]]

GetSymbolPrediction ==
    /\ \E symbol \in Symbols, is_monthly \in {Null, Some(TRUE), Some(FALSE)} :
          last' = SymbolPrediction(txns, symbol, is_monthly)
    /\ UNCHANGED <<txns, rebalanceVars, serviceVars>>

\* The dividends of symbol A on record: the payment dates of a table (none,
\* one, two, three in a form strptime rejects, monthly, quarterly, irregular
\* over three calendar years, irregular within one year, one before the
\* windows, two in one month, one of three unparseable) and the amounts, the
\* first and the change from each payment to the next, in cents.
Schedules ==
    { << >>,
      <<DateStr("-", 2026, 8, 15)>>,
      <<DateStr("-", 2026, 5, 15), DateStr("-", 2026, 8, 15)>>,
      <<DateStr("/", 2026, 2, 15), DateStr("/", 2026, 5, 15), DateStr("/", 2026, 8, 15)>>,
      <<DateStr("-", 2026, 5, 15), DateStr("-", 2026, 6, 15),
        DateStr("-", 2026, 7, 15), DateStr("-", 2026, 8, 15)>>,
      <<DateStr("-", 2025, 11, 15), DateStr("-", 2026, 2, 15),
        DateStr("-", 2026, 5, 15), DateStr("-", 2026, 8, 15)>>,
      <<DateStr("-", 2024, 1, 15), DateStr("-", 2025, 1, 15), DateStr("-", 2025, 2, 15),
        DateStr("-", 2025, 9, 15), DateStr("-", 2026, 8, 15)>>,
      <<DateStr("-", 2026, 1, 15), DateStr("-", 2026, 2, 15), DateStr("-", 2026, 8, 15)>>,
      <<DateStr("-", 2020, 1, 15), DateStr("-", 2026, 5, 15), DateStr("-", 2026, 8, 15)>>,
      <<DateStr("-", 2026, 8, 1), DateStr("-", 2026, 8, 15)>>,
      <<DateStr("-", 2026, 2, 15), DateStr("/", 2026, 5, 15), DateStr("-", 2026, 8, 15)>> }

Ramps == {[first |-> 10000, step |-> 1000], [first |-> 10000, step |-> 0],
          [first |-> 13000, step |-> -3000]}

DividendTables ==
    {[k \in 1..Len(dates) |->
         DivRow("A", Some(dates[k]), ramp.first + ramp.step * (k - 1), 1)] :
       dates \in Schedules, ramp \in Ramps}

InitDividends ==
    /\ txns \in DividendTables
    /\ last = NoCall
    /\ prices = [s \in Symbols |-> Some(100)]
    /\ mpt = [s \in Symbols |-> MptRow(Some(50), Null, NoFlag)]
    /\ BatchIdle
    /\ ServicesIdle

NextDividends ==
    \/ GetDividendFrequency
    \/ GetSymbolPrediction

SpecDividends == InitDividends /\ [][NextDividends]_vars

\* -------------------------------------------------------- optimizer tasks

Entry(status, result, error) == [status |-> status, result |-> result, error |-> error]

\* Ids a client may poll: every id that can be issued and one that never is.
PollIds == 1..(MaxTasks + 1)

\* task_storage.get(task_id): the entry, or None.
StorageGet(storage, t) ==
    IF t \in DOMAIN storage THEN storage[t] ELSE Null

\* get_task_status: the entry, or the not_found default.
TaskStatus(storage, t) ==
    IF IsNull(StorageGet(storage, t))
    THEN Entry("not_found", Null, Some("Task not found"))
    ELSE Val(StorageGet(storage, t))

\* initiate_mpt_modeling: a fresh id, the task handed to BackgroundTasks,
\* the id returned.  task_storage is not touched.
InitiateMptModeling ==
    \E t \in TaskIds :
       /\ tline[t] = "none"
       /\ \A u \in TaskIds : u < t => tline[u] # "none"
       /\ tline' = [tline EXCEPT ![t] = "queued"]
       /\ last' = [op |-> "run-mpt-modeling", id |-> t]
       /\ UNCHANGED <<txns, rebalanceVars, task_storage, schedulerVars>>

\* run_mpt_modeling_task, line 27: the worker thread creates the entry.
TaskStarts ==
    \E t \in TaskIds :
       /\ tline[t] = "queued"
       /\ task_storage' = [task_storage EXCEPT ![t] = Some(Entry("running", Null, Null))]
       /\ tline' = [tline EXCEPT ![t] = "running"]
       /\ UNCHANGED <<ledgerVars, rebalanceVars, schedulerVars>>

\* Lines 29-52: the parameters parse and run_optimization returns its
\* output; the status is written first.
TaskCompletes ==
    \E t \in TaskIds :
       /\ tline[t] = "running"
       /\ task_storage' = [task_storage EXCEPT
                             ![t] = Some([Val(@) EXCEPT !.status = "completed"])]
       /\ tline' = [tline EXCEPT ![t] = "completed"]
       /\ UNCHANGED <<ledgerVars, rebalanceVars, schedulerVars>>

\* Line 53: the result is written.
TaskStoresResult ==
    \E t \in TaskIds :
       /\ tline[t] = "completed"
       /\ task_storage' = [task_storage EXCEPT
                             ![t] = Some([Val(@) EXCEPT !.result = Some("output")])]
       /\ tline' = [tline EXCEPT ![t] = "returned"]
       /\ UNCHANGED <<ledgerVars, rebalanceVars, schedulerVars>>

\* Lines 54-55: float() or run_optimization raises; the status is written
\* first.
TaskFails ==
    \E t \in TaskIds :
       /\ tline[t] = "running"
       /\ task_storage' = [task_storage EXCEPT
                             ![t] = Some([Val(@) EXCEPT !.status = "failed"])]
       /\ tline' = [tline EXCEPT ![t] = "failed"]
       /\ UNCHANGED <<ledgerVars, rebalanceVars, schedulerVars>>

\* Line 56: str(e) is written.
TaskStoresError ==
    \E t \in TaskIds :
       /\ tline[t] = "failed"
       /\ task_storage' = [task_storage EXCEPT
                             ![t] = Some([Val(@) EXCEPT !.error = Some("message")])]
       /\ tline' = [tline EXCEPT ![t] = "returned"]
       /\ UNCHANGED <<ledgerVars, rebalanceVars, schedulerVars>>

\* GET task-status: what get_task_status returns, read on the serving thread
\* while the workers run; issued notes whether the id had been returned by
\* initiate_mpt_modeling when the request was served.
GetTaskStatus ==
    \E t \in PollIds :
       /\ last' = [op |-> "task-status", id |-> t,
                   issued |-> t \in TaskIds /\ tline[t] # "none",
                   body |-> TaskStatus(task_storage, t)]
       /\ UNCHANGED <<txns, rebalanceVars, serviceVars>>

\* save_to_repository and its endpoint: 400 unless the entry is completed
\* and result['debug_info'] can be read and stored; saved tells whether
\* model_repo.save_model_run returned.
SaveOutcome(storage, t, saved) ==
    LET data == StorageGet(storage, t)
    IN  IF IsNull(data) \/ Val(data).status # "completed"
        THEN [resp |-> 400, error |-> "Task not found or not completed"]
        ELSE IF IsNull(Val(data).result)
        THEN [resp |-> 400, error |-> "'NoneType' object is not subscriptable"]
        ELSE IF ~saved
        THEN [resp |-> 400, error |-> "save_model_run"]
        ELSE [resp |-> 200, error |-> "none"]

SaveToRepository ==
    \E t \in PollIds, saved \in BOOLEAN :
       /\ last' = [op |-> "save-to-repository", id |-> t,
                   resp |-> SaveOutcome(task_storage, t, saved).resp,
                   error |-> SaveOutcome(task_storage, t, saved).error]
       /\ UNCHANGED <<txns, rebalanceVars, serviceVars>>

NextTasks ==
    \/ InitiateMptModeling
    \/ TaskStarts
    \/ TaskCompletes
    \/ TaskStoresResult
    \/ TaskFails
    \/ TaskStoresError
    \/ GetTaskStatus
    \/ SaveToRepository

\* The optimizer endpoints and their background tasks.
SpecTasks == Init /\ [][NextTasks]_vars

\* ---------------------------------------------------------- job scheduler

\* job_defaults['max_instances']: runs of one job id the executor allows.
MaxInstances == 1

\* Job ids a request may name: the registered ones and one that is not.
JobNames == JobIds \cup {"no_such_job"}

\* What job_states.json holds for a job after a pause (False) or a resume.
Persisted(op) == IF op = "pause" THEN "false" ELSE "true"

Answer(op, job, success) == [op |-> op, job |-> job, success |-> success]

\* initialize_scheduler in a fresh process: register_jobs adds every job
\* enabled, the jobs saved as False are paused, and the scheduler starts.
InitializeScheduler ==
    /\ ~running
    /\ \A h \in 1..MaxHandlers : handlers[h] = NoHandler
    /\ \A j \in JobIds, o \in Origins : execs[j][o] = 0
    /\ paused' = {j \in JobIds : job_states[j] = "false"}
    /\ running' = TRUE
    /\ UNCHANGED <<ledgerVars, rebalanceVars, taskVars, job_states, handlers, execs, settled>>

\* shutdown_event / shutdown_scheduler: the scheduler stops; handlers and
\* executions already under way run to their end.
ShutdownScheduler ==
    /\ running
    /\ running' = FALSE
    /\ UNCHANGED <<ledgerVars, rebalanceVars, taskVars, paused, job_states, handlers, execs, settled>>

\* pause_job / resume_job up to scheduler.pause_job / scheduler.resume_job:
\* an early failure answer when the scheduler is stopped or the job unknown.
RequestBegins ==
    \E h \in 1..MaxHandlers, op \in {"pause", "resume"}, j \in JobNames :
       /\ handlers[h] = NoHandler
       /\ IF ~running \/ j \notin JobIds
          THEN /\ last' = Answer(op, j, FALSE)
               /\ UNCHANGED <<paused, handlers>>
          ELSE /\ paused' = IF op = "pause" THEN paused \cup {j} ELSE paused \ {j}
               /\ handlers' = [handlers EXCEPT
                                 ![h] = [op |-> op, job |-> j, at |-> "load", loaded |-> << >>]]
               /\ UNCHANGED last
       /\ UNCHANGED <<txns, rebalanceVars, taskVars, running, job_states, execs, settled>>

\* load_job_states(): the handler reads the whole file.
RequestLoads ==
    \E h \in 1..MaxHandlers :
       /\ handlers[h].at = "load"
       /\ handlers' = [handlers EXCEPT ![h].at = "save", ![h].loaded = <<job_states>>]
       /\ UNCHANGED <<ledgerVars, rebalanceVars, taskVars, running, paused, job_states,
                      execs, settled>>

\* job_states[job_id] = False / True; save_job_states(job_states) rewrites
\* the whole file from what the handler loaded; the success answer.
RequestSaves ==
    \E h \in 1..MaxHandlers :
       /\ handlers[h].at = "save"
       /\ job_states' = [Val(handlers[h].loaded) EXCEPT
                           ![handlers[h].job] = Persisted(handlers[h].op)]
       /\ settled' = [settled EXCEPT ![handlers[h].job] = handlers[h].op]
       /\ handlers' = [handlers EXCEPT ![h] = NoHandler]
       /\ last' = Answer(handlers[h].op, handlers[h].job, TRUE)
       /\ UNCHANGED <<txns, rebalanceVars, taskVars, running, paused, execs>>

\* The cron trigger of an enabled job fires: the executor starts the run
\* unless max_instances runs of this job id are under way.
TriggerFires ==
    \E j \in JobIds :
       /\ running
       /\ j \notin paused
       /\ execs[j]["scheduled"] < MaxInstances
       /\ execs' = [execs EXCEPT ![j]["scheduled"] = @ + 1]
       /\ UNCHANGED <<ledgerVars, rebalanceVars, taskVars, running, paused, job_states,
                      handlers, settled>>

\* run_job_now: update_overamt_job is called in the handler's own thread;
\* any other job is added again under a new id with a date trigger, which
\* the executor starts at once and counts under that new id.
RunJobNow ==
    \E j \in JobNames :
       /\ IF ~running \/ j \notin JobIds
          THEN /\ last' = Answer("run-now", j, FALSE)
               /\ UNCHANGED execs
          ELSE /\ execs[j]["manual"] < MaxManual
               /\ execs' = [execs EXCEPT ![j]["manual"] = @ + 1]
               /\ last' = Answer("run-now", j, TRUE)
       /\ UNCHANGED <<txns, rebalanceVars, taskVars, running, paused, job_states,
                      handlers, settled>>

\* A run of a job function returns.
ExecutionEnds ==
    \E j \in JobIds, o \in Origins :
       /\ execs[j][o] > 0
       /\ execs' = [execs EXCEPT ![j][o] = @ - 1]
       /\ UNCHANGED <<ledgerVars, rebalanceVars, taskVars, running, paused, job_states,
                      handlers, settled>>

NextScheduler ==
    \/ InitializeScheduler
    \/ ShutdownScheduler
    \/ RequestBegins
    \/ RequestLoads
    \/ RequestSaves

\* The scheduler, its job-state file and the pause and resume endpoints.
SpecScheduler == Init /\ [][NextScheduler]_vars

\* The job-state files a process may find at startup.
JobFiles == [JobIds -> {"absent", "true", "false"}]

InitJobRuns ==
    /\ txns = << >>
    /\ last = NoCall
    /\ prices = [s \in Symbols |-> Some(100)]
    /\ mpt = [s \in Symbols |-> MptRow(Some(50), Null, NoFlag)]
    /\ BatchIdle
    /\ \E file \in JobFiles : ServicesStart(file)

NextJobRuns ==
    \/ InitializeScheduler
    \/ ShutdownScheduler
    \/ TriggerFires
    \/ RunJobNow
    \/ ExecutionEnds

\* The runs of the jobs: cron triggers, run-now requests, restarts.
SpecJobRuns == InitJobRuns /\ [][NextJobRuns]_vars

\* ------------------------------------------------------------------ claims

BuyRows == {i \in 1..Len(txns) : txns[i].xtype = "Buy"}

\* C1: every Buy transaction has 0 <= effective remaining units <= units
\* after any sequence of create, update and close requests.
C1_RemainingWithinUnits ==
    \A i \in BuyRows :
        /\ 0 <= EffectiveRemaining(txns[i])
        /\ EffectiveRemaining(txns[i]) <= txns[i].units

\* C2: every transaction whose type is not Buy has units_remaining NULL.
C2_NonBuyRemainingNull ==
    \A i \in 1..Len(txns) :
        txns[i].xtype # "Buy" => IsNull(txns[i].units_remaining)

\* C3: no request raises the units_remaining of a Buy transaction.
C3_RemainingNeverIncreases ==
    [][\A i \in BuyRows :
          (/\ txns'[i].xtype = "Buy"
           /\ ~IsNull(txns[i].units_remaining)
           /\ ~IsNull(txns'[i].units_remaining))
          => Val(txns'[i].units_remaining) <= Val(txns[i].units_remaining)]_vars

\* C4: close_lots called again with the same id list right after a call that
\* completed (200 or 404), and without a store error, changes no row and
\* answers 404 with no lot closed.
C4_CloseLotsIdempotent ==
    [][(/\ last'.op = "close"
        /\ last'.again # 0
        /\ last'.fault = "none")
       => (/\ txns' = txns
           /\ last'.resp = 404
           /\ last'.count = 0)]_vars

\* C4 witness: a second call answered 404 after the first had closed lots.
C4_Witness ==
    /\ last.op = "close"
    /\ last.again = 200
    /\ last.resp = 404
    /\ \E i \in last.ids : Exists(txns, i) /\ txns[i].disposition = "sold"

\* C5: a close_lots call hit by a store error changes no row and answers 500.
C5_CloseLotsAllOrNothing ==
    [][(last'.op = "close" /\ last'.fault # "none")
       => (txns' = txns /\ last'.resp = 500 /\ last'.count = 0)]_vars

\* C5 witness: COMMIT failed on a list naming two rows, one of them open
\* before the call and open after it.
C5_Witness ==
    /\ last.op = "close"
    /\ last.fault = "commit"
    /\ last.resp = 500
    /\ Cardinality(last.ids \cap 1..Len(txns)) >= 2
    /\ \E i \in last.ids : Exists(txns, i) /\ txns[i].disposition # "sold"

\* The listed rows that exist and are not closed.
OpenListed(t, ids) == {i \in ids : Exists(t, i) /\ t[i].disposition # "sold"}

\* C6: a close_lots call without a store error whose list names at least one
\* row that is not closed answers 200, closes exactly the listed rows that
\* were not closed, leaves every other row as it was and reports their number.
C6_CloseLotsMixedList ==
    [][(/\ last'.op = "close"
        /\ last'.fault = "none"
        /\ OpenListed(txns, last'.ids) # {})
       => (/\ last'.resp = 200
           /\ last'.count = Cardinality(OpenListed(txns, last'.ids))
           /\ Len(txns') = Len(txns)
           /\ \A i \in 1..Len(txns) :
                 txns'[i] = IF i \in OpenListed(txns, last'.ids)
                            THEN [txns[i] EXCEPT !.disposition = "sold"]
                            ELSE txns[i])]_vars

\* C6 witness: a 200 for a list naming an unknown id and more existing rows
\* than it closed, so one of them was closed already.
C6_Witness ==
    /\ last.op = "close"
    /\ last.resp = 200
    /\ last.count >= 1
    /\ \E i \in last.ids : ~Exists(txns, i)
    /\ Cardinality(last.ids \cap 1..Len(txns)) > last.count

\* C7: a run of run_update whose portfolio value is <= 0 returns False and
\* leaves the overamt and flag of every symbol as they were.
C7_WorthlessPortfolioAborts ==
    (pc = "idle" /\ runs > 0 /\ pv <= 0)
    => (ret = "False" /\ Stored(mpt) = before)

\* C7 witness: transactions exist, nothing raised, the portfolio is worth
\* nothing, and the values an earlier run left are still stored.
C7_Witness ==
    /\ pc = "idle"
    /\ runs > 0
    /\ pv <= 0
    /\ raised = {}
    /\ ret = "False"
    /\ txns # << >>
    /\ \A s \in Symbols : mpt[s].overamt = Some(700) /\ mpt[s].flag = "O"

C9_ExceptionAbortsRun ==
    (pc = "idle" /\ raised # {})
    => (ret = "False" /\ Stored(mpt) = before)

\* C10: a successful run that follows a successful run, with no transaction,
\* price or target changed since that one began, leaves the overamt and flag
\* of every symbol as the first run left them.
C10_RerunLeavesSameValues ==
    (pc = "idle" /\ ret = "True" /\ rerun /\ stable)
    => Stored(mpt) = before

\* The flag the rule "Underweight below -1 dollar, Hold from -1 dollar up to
\* but not including 0, Overweight from 0" gives an overamt in cents.
RuleFlag(overamt) ==
    IF overamt < -100 THEN "U"
    ELSE IF overamt < 0 THEN "H"
    ELSE "O"

\* The symbols a run with portfolio value pv writes: target_alloc defined and
\* target value not 0.
Targeted(s) ==
    /\ ~IsNull(mpt[s].target_alloc)
    /\ TargetValue(Val(mpt[s].target_alloc), pv) # 0

\* C11: after a successful run, every symbol the run updated has the flag
\* the rule gives its stored overamt: Underweight below -1.00, Hold from
\* -1.00 inclusive to 0 exclusive, Overweight from 0.
C11_FlagFollowsOveramt ==
    (pc = "idle" /\ ret = "True")
    => \A s \in Symbols :
          Targeted(s) => mpt[s].flag = RuleFlag(Val(mpt[s].overamt))

\* The rows a run is to skip: target_alloc NULL or target value 0.
Skipped(s) == ~Targeted(s)

\* C12: a run on a portfolio worth more than 0 and hit by no store error
\* succeeds, leaves the overamt and flag of every row with a NULL
\* target_alloc or a target value of 0 as they were, and stores an overamt
\* and its flag for every other row.
C12_SkipsUndefinedTargets ==
    (pc = "idle" /\ runs > 0 /\ pv > 0 /\ faults = 0)
    => /\ ret = "True"
       /\ \A s \in Symbols :
             IF Skipped(s)
             THEN Stored(mpt)[s] = before[s]
             ELSE /\ ~IsNull(mpt[s].overamt)
                  /\ mpt[s].flag = Flag(Val(mpt[s].overamt))

\* C13: the position value a run uses for a symbol, which is the overamt it
\* writes plus the target value, is the symbol's open-lot units times its
\* price (0 without a price row), and is never negative.
C13_PositionIsOpenLots ==
    \A s \in Symbols :
        (~IsNull(pending[s]) /\ raised = {})
        => LET position == Val(pending[s]).overamt
                           + TargetValue(Val(mpt[s].target_alloc), pv)
           IN  /\ position >= 0
               /\ position = IF IsNull(prices[s]) THEN 0
                             ELSE OpenLotUnits(txns, s) * Val(prices[s])

\* The entries of the last response, when it is a get_potential_lots success.
Candidates ==
    IF last.op = "potential-lots" /\ last.resp = 200
    THEN {last.rows[k] : k \in 1..Len(last.rows)} ELSE {}

\* C14: every entry get_potential_lots returns is for a symbol stored as
\* Overweight with overamt above the overweight threshold and with a current
\* price, for a lot priced above 0 and below the current price, with profit
\* and current value not below their thresholds.
C14_CandidatesMeetCriteria ==
    \A c \in Candidates :
        /\ mpt[c.symbol].flag = "O"
        /\ Val(mpt[c.symbol].overamt) > last.th.overweight
        /\ ~IsNull(prices[c.symbol])
        /\ txns[c.lot].price > 0
        /\ txns[c.lot].price < Val(prices[c.symbol])
        /\ c.profit >= last.th.profit
        /\ c.current_value >= last.th.lot_value

\* C15: get_potential_lots returns no entry for a lot whose units_remaining
\* is 0, and the units of every entry are the lot's units_remaining when that
\* is not NULL and the lot's units when it is.
C15_CandidateUnitsRemaining ==
    \A c \in Candidates :
        /\ txns[c.lot].units_remaining # Some(0)
        /\ c.units = EffectiveRemaining(txns[c.lot])

\* A date_new that cannot be parsed: NULL or a string in another form.
Unparseable(date) == IsNull(date) \/ StrptimeRaises(Val(date))

\* C16: get_potential_lots never answers 500 because of a date_new that cannot
\* be parsed, and an entry for a lot with such a date is short-term and does
\* not carry the date of another lot.
C16_BadDateIsShortTerm ==
    last.op = "potential-lots"
    => /\ last.resp = 200
       /\ \A c \in Candidates :
             Unparseable(txns[c.lot].date_new)
             => /\ ~c.is_long_term
                /\ c.date \in {Null, txns[c.lot].date_new}

\* The dividend payments of the symbol of the last request within the 36
\* months detect_payment_frequency looks at.
PaymentsInWindow == Cardinality(DividendIds(txns, last.symbol, 36))

\* C17: detect_payment_frequency for a symbol with 0, 1 or 2 dividend payments
\* in the window returns frequency quarterly, confidence 0.0, reason
\* insufficient_data and data_points equal to the number of payments, and
\* does not raise.
C17_TooFewPaymentsFallback ==
    (last.op = "frequency" /\ PaymentsInWindow < 3)
    => /\ last.resp = 200
       /\ last.body.frequency = "quarterly"
       /\ last.body.confidence = 0
       /\ last.body.reason = "insufficient_data"
       /\ last.body.data_points = PaymentsInWindow

\* C17 witness: the fallback for a symbol with three payments on record, two
\* of them in the window.
C17_Witness ==
    /\ last.op = "frequency"
    /\ last.symbol = "A"
    /\ Len(txns) = 3
    /\ PaymentsInWindow = 2
    /\ last.body.reason = "insufficient_data"
    /\ last.body.data_points = 2

\* The fields every record of detect_payment_frequency is to hold.
FrequencyFields ==
    {"symbol", "frequency", "confidence", "reason", "data_points",
     "avg_interval_days", "interval_std_dev", "intervals", "payments_by_year"}

\* C18: every record detect_payment_frequency returns holds symbol,
\* frequency, confidence, reason, data point count, mean interval, interval
\* standard deviation, interval list and payments per calendar year.
C18_AllFieldsOnEveryPath ==
    last.op = "frequency" => FrequencyFields \subseteq DOMAIN last.body

\* The per-period totals 100, 110, 120, 130 dollars, in cents.
ScenarioCosts == <<10000, 11000, 12000, 13000>>

\* C19: for period totals 100, 110, 120, 130 at periods 1 to 4,
\* get_symbol_prediction fits slope 10 and intercept 90, and the first point
\* of its forecast, the first period after the history, is 140.
C19_ScenarioPredicts140 ==
    LET history == History(txns, last.symbol)
    IN  (/\ last.op = "prediction"
         /\ [k \in 1..Len(history) |-> history[k].cost] = ScenarioCosts)
        => /\ last.resp = 200
           /\ last.fit.p = 1000 * last.fit.d
           /\ last.fit.c = 9000 * last.fit.n * last.fit.d
           /\ last.body.complete_forecast[1].cost = 14000

\* C20: get_symbol_prediction for a symbol without dividend history in the
\* window answers 404, not 500 and not a forecast.
C20_NoHistoryIsNotFound ==
    (last.op = "prediction" /\ History(txns, last.symbol) = << >>)
    => last.resp = 404

\* Months counted from year 0, so that a calendar interval is a difference.
MonthIndex(date) == date.y * 12 + date.m

\* C21: in a forecast made from a last historical period the handler can
\* parse, point k is dated k intervals (of 1 month if monthly, 3 if
\* quarterly) after that period, so that no two points share a month and no
\* period is skipped, and no point is dated past November 2038.
C21_ForecastStepsByCalendar ==
    LET history == History(txns, last.symbol)
        start == history[Len(history)].date
        forecast == last.body.complete_forecast
        interval == IF last.body.is_monthly THEN 1 ELSE 3
    IN  (last.op = "prediction" /\ last.resp = 200 /\ start.sep = "-")
        => \A k \in 1..Len(forecast) :
              /\ MonthIndex(forecast[k].date) = MonthIndex(start) + k * interval
              /\ MonthIndex(forecast[k].date) <= MonthIndex(MaxPredictionDate)

\* C30: get_symbol_prediction for a symbol whose history is one period
\* answers with a forecast or with 404, not with 500.
C30_OnePeriodDegrades ==
    (last.op = "prediction" /\ Len(History(txns, last.symbol)) = 1)
    => last.resp \in {200, 404}

\* The open lots whose date_new the listing can read.
ReadableLots ==
    {i \in 1..Len(txns) : /\ txns[i].xtype = "Buy"
                          /\ txns[i].disposition = "null"
                          /\ ~(~IsNull(txns[i].date_new)
                               /\ StrptimeRaises(Val(txns[i].date_new)))}

\* C22: when every open lot has a date the listing can read, get_open_lots
\* answers 200 and lists every open lot; a lot with price 0 has pl_pct NULL,
\* and a lot whose symbol has no prices row has current_value, profit_loss
\* and pl_pct NULL.
C22_OpenLotsNeverFail ==
    (/\ last.op = "open-lots"
     /\ \A i \in 1..Len(txns) :
           (txns[i].xtype = "Buy" /\ txns[i].disposition = "null") => i \in ReadableLots)
    => /\ last.resp = 200
       /\ \A i \in ReadableLots :
             \E k \in 1..Len(last.rows) :
                /\ last.rows[k].id = i
                /\ txns[i].price = 0 => IsNull(last.rows[k].pl_pct)
                /\ IsNull(prices[txns[i].symbol])
                   => /\ IsNull(last.rows[k].current_value)
                      /\ IsNull(last.rows[k].profit_loss)
                      /\ IsNull(last.rows[k].pl_pct)

\* C23: every task_storage entry moves only from running to completed or
\* from running to failed, never changes status after that, and carries a
\* result whenever it is completed and an error whenever it is failed.
C23_TaskLifecycle ==
    [][\A t \in TaskIds :
          LET old == TaskStatus(task_storage, t)
              new == TaskStatus(task_storage', t)
          IN  /\ old.status # new.status
                 => <<old.status, new.status>> \in
                       {<<"not_found", "running">>, <<"running", "completed">>,
                        <<"running", "failed">>}
              /\ new.status = "completed" => ~IsNull(new.result)
              /\ new.status = "failed" => ~IsNull(new.error)]_vars

\* C29: get_task_status for an id that initiate_mpt_modeling has returned
\* never answers not_found.
C29_IssuedIdIsKnown ==
    (last.op = "task-status" /\ last.issued) => last.body.status # "not_found"

\* C24: after a restart a job is paused exactly when the last successful
\* request for it was a pause, and a pause or resume request that fails
\* (unknown job, scheduler stopped) changes neither the scheduler nor the
\* job-state file.
C24_StateSurvivesRestart ==
    [][/\ (~running /\ running')
          => \A j \in JobIds : j \in paused' <=> settled[j] = "pause"
       /\ (last' # last /\ last'.op \in {"pause", "resume"} /\ ~last'.success)
          => UNCHANGED <<paused, job_states>>]_vars

\* C25: at most one run of a job's function is under way at any time,
\* scheduled and manual runs taken together.
C25_OneInstancePerJob ==
    \A j \in JobIds : execs[j]["scheduled"] + execs[j]["manual"] <= 1

\* C28: a pause_job or resume_job request that completes while requests
\* for other jobs are in flight loses none of their updates: its save
\* leaves the persisted state of every other job as it was.
C28_NoLostUpdate ==
    [][\A h \in 1..MaxHandlers :
          (handlers[h].at = "save" /\ handlers'[h].at = "idle")
          => \A j \in JobIds \ {handlers[h].job} : job_states'[j] = job_states[j]]_vars

\* The prices tables a snapshot may hold.
Snapshots == [Symbols -> {Null} \cup {Some(c) : c \in PriceDom}]

\* C26: the overamt values one run of run_update commits are all computed
\* from one snapshot of the prices table: one price per symbol gives both
\* the portfolio value and every position value of the run.
C26_OnePriceSnapshot ==
    [][(pc = "commit" /\ ret' = "True" /\ raised = {})
       => \E p \in Snapshots :
             /\ pv = CalculatePortfolioValue(txns, p)
             /\ \A s \in Symbols :
                   ~IsNull(pending[s])
                   => Val(pending[s]).overamt
                      = DiffAmount(GetPositionValue(txns, p, s),
                                   TargetValue(Val(mpt[s].target_alloc), pv))]_vars

\* C27: a lot that close_lots has just closed is not made open again by the
\* next request, whatever it is: its disposition does not return to NULL.
C27_ClosedStaysClosed ==
    [][\A i \in 1..Len(txns) :
          (/\ last.op = "close"
           /\ last.resp = 200
           /\ i \in last.ids
           /\ txns[i].disposition = "sold")
          => txns'[i].disposition # "null"]_vars

====
